---- MODULE Spec2Model ----
(***************************************************************************)
(* The chunk cache of src/utils/chunkCache.ts: a directory of              *)
(* <key>.json files holding edit chunks, with a 10 minute time-to-live and *)
(* a cap on the number of files.                                           *)
(*                                                                         *)
(* Strings of the program (keys, file names, paths) are sequences of       *)
(* one-character strings, so that the key pattern, path resolution and the *)
(* ".json" suffix test are computed character by character.  A file's      *)
(* content is the sequence of JSON tokens JSON.stringify produces.         *)
(***************************************************************************)
EXTENDS Integers, Sequences, FiniteSets, TLC

\* ------------------------------------------------------------------ bounds

\* The clock runs over 0..MaxTime (a tick is one unit of Date.now() and of
\* a file's mtimeMs, which share the system clock).
MaxTime == 2

\* Writer processes of the multi-process specification.
NumProcs == 2

\* ------------------------------------------------------- program constants

\* const CACHE_TTL = 10 * 60 * 1000, scaled to clock ticks of the model.
CACHE_TTL == 1

\* const MAX_CACHE_FILES = 50, scaled so that the cap is exceeded with the
\* keys of the model.
MAX_CACHE_FILES == 2

\* The retry bound of the key loop: for (let i = 0; i < 5 && ...; i++).
MAX_RETRIES == 5

\* ------------------------------------------------------------ characters

HexLower == <<"0","1","2","3","4","5","6","7","8","9","a","b","c","d","e","f">>

HexUpper == <<"0","1","2","3","4","5","6","7","8","9","A","B","C","D","E","F">>

Range(s) == {s[i] : i \in 1..Len(s)}

SEP == "/"

DOT_JSON == <<".","j","s","o","n">>

\* s.startsWith(p)
StartsWith(s, p) == Len(s) >= Len(p) /\ SubSeq(s, 1, Len(p)) = p

\* s.endsWith(p)
EndsWith(s, p) == Len(s) >= Len(p) /\ SubSeq(s, Len(s) - Len(p) + 1, Len(s)) = p

\* os.tmpdir() on a POSIX host.
TMPDIR == <<"/","t","m","p">>

\* path.join(a, b) for two normalised operands, b relative.
PathJoin(a, b) == a \o <<SEP>> \o b

CACHE_DIR == PathJoin(TMPDIR, <<"g","e","m","i","n","i","-","m","c","p","-","c","h","u","n","k","s">>)

\* The file of a key, written out: CACHE_DIR/<key>.json.
KeyFile(key) == CACHE_DIR \o <<SEP>> \o key \o DOT_JSON

\* --------------------------------------------------------- key validation

\* /^[a-f0-9]{8}$/i .test(cacheKey): exactly eight characters, each a hex
\* digit of either case (the i flag).
CACHE_KEY_PATTERN_ALT(cacheKey) ==
    /\ Len(cacheKey) >= 8
    /\ \A i \in 1..8 : cacheKey[i] \in Range(HexLower) \cup Range(HexUpper)

CACHE_KEY_PATTERN(cacheKey) ==
    /\ Len(cacheKey) = 8
    /\ \A i \in 1..8 : cacheKey[i] \in Range(HexLower) \cup Range(HexUpper)

\* ---------------------------------------------------------- path.resolve

\* The segments of a path: the maximal runs of characters other than "/".
RECURSIVE Segments(_)
Segments(s) ==
    IF s = <<>> THEN <<>>
    ELSE IF Head(s) = SEP THEN Segments(Tail(s))
    ELSE LET n == IF \E i \in 1..Len(s) : s[i] = SEP
                  THEN (CHOOSE i \in 1..Len(s) :
                          s[i] = SEP /\ \A j \in 1..(i-1) : s[j] # SEP) - 1
                  ELSE Len(s)
         IN <<SubSeq(s, 1, n)>> \o Segments(SubSeq(s, n + 1, Len(s)))

\* Normalisation of a list of segments: "." is dropped, ".." removes the
\* segment before it (and is dropped at the root).
RECURSIVE Normalize(_, _)
Normalize(segs, acc) ==
    IF segs = <<>> THEN acc
    ELSE IF Head(segs) = <<".">> THEN Normalize(Tail(segs), acc)
    ELSE IF Head(segs) = <<".",".">>
         THEN Normalize(Tail(segs),
                        IF acc = <<>> THEN acc ELSE SubSeq(acc, 1, Len(acc) - 1))
    ELSE Normalize(Tail(segs), Append(acc, Head(segs)))

RECURSIVE JoinSegments(_)
JoinSegments(segs) ==
    IF segs = <<>> THEN <<>>
    ELSE <<SEP>> \o Head(segs) \o JoinSegments(Tail(segs))

\* path.resolve(from, to): an absolute `to` replaces `from`; the result is
\* absolute and normalised ("/" for the root).
PathResolve(from, to) ==
    LET joined == IF to # <<>> /\ Head(to) = SEP THEN to ELSE from \o <<SEP>> \o to
        segs   == Normalize(Segments(joined), <<>>)
    IN IF segs = <<>> THEN <<SEP>> ELSE JoinSegments(segs)

\* The value null of the program.
Null == <<"n","u","l","l","-","v","a","l","u","e">>

resolveCachePath_NoCheck(cacheKey) ==
    PathResolve(CACHE_DIR, cacheKey \o DOT_JSON)

resolveCachePath_FixedName(cacheKey) ==
    IF ~CACHE_KEY_PATTERN(cacheKey) THEN Null
    ELSE PathResolve(CACHE_DIR, <<"c","a","c","h","e","K","e","y">> \o DOT_JSON)

resolveCachePath_Unanchored(cacheKey) ==
    IF ~CACHE_KEY_PATTERN_ALT(cacheKey) THEN Null
    ELSE LET base     == PathResolve(CACHE_DIR, <<>>)
             resolved == PathResolve(CACHE_DIR, cacheKey \o DOT_JSON)
         IN IF ~StartsWith(resolved, base \o <<SEP>>) THEN Null ELSE resolved

\* function resolveCachePath(cacheKey): string | null
resolveCachePath(cacheKey) ==
    IF ~CACHE_KEY_PATTERN(cacheKey) THEN Null
    ELSE LET base     == PathResolve(CACHE_DIR, <<>>)
             resolved == PathResolve(CACHE_DIR, cacheKey \o DOT_JSON)
         IN IF ~StartsWith(resolved, base \o <<SEP>>) THEN Null ELSE resolved

\* ------------------------------------------------------------- key source

\* The last byte randomBytes(4) may deliver in the model (the first three
\* are 0): three keys, one more than MAX_CACHE_FILES.
RandomLastBytes == {10, 177, 255}

ByteToHex_Upper(b) == <<HexUpper[(b \div 16) + 1], HexUpper[(b % 16) + 1]>>

\* One byte of Buffer.toString('hex'): two lowercase hex digits.
ByteToHex(b) == <<HexLower[(b \div 16) + 1], HexLower[(b % 16) + 1]>>

\* randomBytes(4).toString('hex')
BytesToHex(bytes) ==
    ByteToHex(bytes[1]) \o ByteToHex(bytes[2]) \o ByteToHex(bytes[3]) \o ByteToHex(bytes[4])

RandomKeys == {BytesToHex(<<0, 0, 0, b>>) : b \in RandomLastBytes}

Prompts == {"fix bug", "add test"}

\* createHash('sha256').update(prompt).digest('hex'), cut to its first ten
\* hex digits (the program uses the first eight as the fallback key and
\* stores the digest as metadata).
Sha256Hex(prompt) ==
    IF prompt = "fix bug"
    THEN <<"5","2","f","2","d","7","1","1","1","1">>
    ELSE <<"0","b","9","c","1","a","1","0","d","6">>

\* promptHash.slice(0, 8)
Slice8(s) == SubSeq(s, 1, 8)

\* The keys callers hand to getChunks: the keys cacheChunks can return, one
\* of them in upper case, a traversal, an absolute path, a short and a long
\* key.
ReadKeys ==
    RandomKeys \cup
    { <<"0","0","0","0","0","0","0","A">>,
      <<".",".","/",".",".","/","a","b">>,
      <<"/","e","t","c","/","a","b","c">>,
      <<"0","0","0","a">>,
      <<"0","0","0","0","0","0","0","a","0">> }

\* resolveCachePath, tabulated once over the keys of the model.
CachePath == [k \in ReadKeys \cup {Slice8(Sha256Hex(p)) : p \in Prompts} |->
                 resolveCachePath(k)]

\* ------------------------------------------------------------------ JSON

\* Edit chunks are opaque JSON values; a chunk is written as one token.
Chunks == {"A", "B"}

\* The calls of cacheChunks: a prompt and the chunks of its response.
Calls == {<<"fix bug", <<"A", "B">>>>, <<"add test", <<"B">>>>}

Digits == <<"0","1","2","3","4","5","6","7","8","9">>

\* A number as JSON writes it (the clock of the model has one digit).
NumberToString(n) == Digits[n + 1]

\* JSON.stringify({chunks, timestamp, promptHash}): the tokens of the text.
JSONStringify(data) ==
    <<"{", "chunks", "[">> \o data.chunks \o <<"]", "timestamp",
      NumberToString(data.timestamp), "promptHash">> \o data.promptHash \o <<"}">>

\* Whether JSON.parse accepts the text as a cache entry the read path can
\* use: an object with an array `chunks`, a number `timestamp`, and a
\* closing brace.
JSONParses(text) ==
    /\ Len(text) >= 8
    /\ SubSeq(text, 1, 3) = <<"{", "chunks", "[">>
    /\ text[Len(text)] = "}"
    /\ \E i \in 4..Len(text) :
         /\ text[i] = "]"
         /\ \A j \in 4..(i - 1) : text[j] \in Chunks
         /\ i + 3 <= Len(text) - 1
         /\ text[i + 1] = "timestamp"
         /\ text[i + 2] \in Range(Digits)
         /\ text[i + 3] = "promptHash"

\* JSON.parse(fileContent) of a text that parses.
JSONParse(text) ==
    LET close == CHOOSE i \in 4..Len(text) : text[i] = "]"
    IN [chunks     |-> SubSeq(text, 4, close - 1),
        timestamp  |-> (CHOOSE n \in 0..9 : Digits[n + 1] = text[close + 2]),
        promptHash |-> SubSeq(text, close + 4, Len(text) - 1)]

\* ----------------------------------------------------------- file system

\* The file system is a function from the paths of the regular files that
\* exist to [content, mtime]; names are case-sensitive (a POSIX host).
EmptyFS == [p \in {} |-> [content |-> <<>>, mtime |-> 0]]

\* fs.existsSync(path)
existsSync(f, path) == path \in DOMAIN f

writeFileSync_EpochMtime(f, path, text, t) ==
    [p \in DOMAIN f \cup {path} |->
        IF p = path THEN [content |-> text, mtime |-> 0] ELSE f[p]]

\* fs.writeFileSync(path, text): creates or replaces the file; its
\* modification time is the clock's.
writeFileSync(f, path, text, t) ==
    [p \in DOMAIN f \cup {path} |->
        IF p = path THEN [content |-> text, mtime |-> t] ELSE f[p]]

\* fs.unlinkSync over a set of paths.
unlinkAll(f, paths) == [p \in DOMAIN f \ paths |-> f[p]]

\* fs.unlinkSync(path)
unlinkSync(f, path) == unlinkAll(f, {path})

\* fs.readdirSync(CACHE_DIR): the names of the directory's entries, which
\* are the paths made of CACHE_DIR, a separator and a name without one.
readdirSync(f) ==
    LET n == Len(CACHE_DIR) + 1
    IN {SubSeq(p, n + 1, Len(p)) :
          p \in {q \in DOMAIN f :
                   /\ Len(q) > n
                   /\ SubSeq(q, 1, n) = CACHE_DIR \o <<SEP>>
                   /\ \A i \in (n + 1)..Len(q) : q[i] # SEP}}

\* files.filter(f => f.endsWith('.json')), each as path.join(CACHE_DIR, f).
JsonPaths(f) == {PathJoin(CACHE_DIR, n) : n \in {m \in readdirSync(f) : EndsWith(m, DOT_JSON)}}

\* ------------------------------------------------------------------ state

VARIABLES
    fs,         \* the files that exist: path -> [content, mtime]
    dirExists,  \* whether CACHE_DIR exists
    now,        \* the system clock: Date.now() and the mtime of a write
    order,      \* the existing cache files, in the order they were last written
    last,       \* the last public operation: its arguments and its outcome
    procs,      \* the writer processes of the multi-process specification
    gone,       \* the paths of the files removed so far (kept by SpecLife)
    race        \* the reading and deleting processes of SpecRace

vars == <<fs, dirExists, now, order, last, procs, gone, race>>

\* The file-system call that fails (throws) during one operation.
Faults == {"none", "mkdir", "readdir", "stat", "read", "write", "truncate", "unlink"}

\* ------------------------------------------------------------- operations

\* function ensureCacheDir(): mkdirSync when the directory is missing (it
\* throws under the fault "mkdir"); a failing chmodSync is ignored.
ensureCacheDir(dir, fault) ==
    IF dir THEN [dir |-> TRUE, threw |-> FALSE]
    ELSE IF fault = "mkdir" THEN [dir |-> FALSE, threw |-> TRUE]
    ELSE [dir |-> TRUE, threw |-> FALSE]

cleanExpiredFiles_AtTTL(f, dir, t, fault) ==
    LET e == ensureCacheDir(dir, fault)
    IN IF e.threw \/ fault = "readdir" THEN [fs |-> f, dir |-> e.dir]
       ELSE [fs  |-> unlinkAll(f, {p \in JsonPaths(f) :
                                     /\ fault \notin {"stat", "unlink"}
                                     /\ t - f[p].mtime >= CACHE_TTL}),
             dir |-> TRUE]

cleanExpiredFiles_Reversed(f, dir, t, fault) ==
    LET e == ensureCacheDir(dir, fault)
    IN IF e.threw \/ fault = "readdir" THEN [fs |-> f, dir |-> e.dir]
       ELSE [fs  |-> unlinkAll(f, {p \in JsonPaths(f) :
                                     /\ fault \notin {"stat", "unlink"}
                                     /\ f[p].mtime - t > CACHE_TTL}),
             dir |-> TRUE]

\* function cleanExpiredFiles(): every error is caught; a failing readdirSync
\* ends the sweep, a failing statSync or unlinkSync skips that file.
cleanExpiredFiles(f, dir, t, fault) ==
    LET e == ensureCacheDir(dir, fault)
    IN IF e.threw \/ fault = "readdir" THEN [fs |-> f, dir |-> e.dir]
       ELSE [fs  |-> unlinkAll(f, {p \in JsonPaths(f) :
                                     /\ fault \notin {"stat", "unlink"}
                                     /\ t - f[p].mtime > CACHE_TTL}),
             dir |-> TRUE]

\* The sets enforceFileLimits may remove: the first files.length -
\* MAX_CACHE_FILES files of the listing sorted by ascending mtime.  The sort
\* is stable and readdirSync's order is unspecified, so files of equal mtime
\* come in any order.
toRemoveChoices(f) ==
    LET files == JsonPaths(f)
        n     == Cardinality(files)
    IN IF n > MAX_CACHE_FILES
       THEN {S \in SUBSET files :
               /\ Cardinality(S) = n - MAX_CACHE_FILES
               /\ \A a \in S, b \in files \ S : f[a].mtime <= f[b].mtime}
       ELSE {{}}

\* function enforceFileLimits(), removing toRemove: a failing readdirSync or
\* statSync ends it (the outer catch), a failing unlinkSync is ignored.
enforceFileLimits(f, dir, fault, toRemove) ==
    IF ~dir \/ fault \in {"readdir", "stat", "unlink"} THEN f
    ELSE unlinkAll(f, toRemove)

RECURSIVE KeyLoop_FewerRetries(_, _, _, _)
KeyLoop_FewerRetries(f, draws, n, i) ==
    LET filePath == CachePath[draws[n]]
    IN IF i < MAX_RETRIES - 1 /\ filePath # Null /\ existsSync(f, filePath)
       THEN KeyLoop_FewerRetries(f, draws, n + 1, i + 1)
       ELSE n

KeyLoop_NoExistsCheck(f, draws, n, i) == n

\* The key loop of cacheChunks (lines 53-58): the number of keys drawn, the
\* last of them being cacheKey.
RECURSIVE KeyLoop(_, _, _, _)
KeyLoop(f, draws, n, i) ==
    LET filePath == CachePath[draws[n]]
    IN IF i < MAX_RETRIES /\ filePath # Null /\ existsSync(f, filePath)
       THEN KeyLoop(f, draws, n + 1, i + 1)
       ELSE n

\* The sequences of keys randomBytes delivers to one run of the key loop on
\* the files f: `collisions` keys that name an existing file, then one more
\* key (which, after MAX_RETRIES collisions, may name an existing file too).
\* The loop asks of a colliding key only whether its file exists, so one
\* existing key stands for all of them.
DrawSeqs(f) ==
    LET taken == {k \in RandomKeys : existsSync(f, CachePath[k])}
        c     == CHOOSE k \in RandomKeys : taken # {} => k \in taken
    IN {[i \in 1..(t[1] + 1) |-> IF i <= t[1] THEN c ELSE t[2]] :
          t \in {u \in (0..MAX_RETRIES) \X RandomKeys :
                   /\ u[1] > 0 => taken # {}
                   /\ u[1] < MAX_RETRIES => u[2] \notin taken}}

\* A write that fails after the file was opened leaves a cut text.
Truncated(text) == SubSeq(text, 1, 4)

\* export function cacheChunks(prompt, chunks): the outcomes over the
\* removals enforceFileLimits may make.  `wrote` is the path written (Null
\* when nothing was), `swept` the files cleanExpiredFiles left and `listed`
\* the files enforceFileLimits found; `before` and `written` are the file
\* system before and after the write step (lines 76-81).
cacheChunks(f, dir, t, prompt, chunks, draws, fault) ==
    LET e == ensureCacheDir(dir, fault)
    IN IF e.threw
       THEN {[fs |-> f, dir |-> e.dir, threw |-> TRUE, ret |-> Null,
              wrote |-> Null, ndraws |-> 0, swept |-> {}, listed |-> {},
              before |-> f, written |-> f]}
       ELSE
       LET swept      == cleanExpiredFiles(f, e.dir, t, fault).fs
           promptHash == Sha256Hex(prompt)
           n          == KeyLoop(swept, draws, 1, 0)
           drawnPath  == CachePath[draws[n]]
           cacheKey   == IF drawnPath = Null THEN Slice8(promptHash) ELSE draws[n]
           filePath   == IF drawnPath = Null THEN CachePath[cacheKey] ELSE drawnPath
       IN IF filePath = Null
          THEN {[fs |-> swept, dir |-> TRUE, threw |-> FALSE,
                 ret |-> Slice8(promptHash), wrote |-> Null, ndraws |-> n,
                 swept |-> DOMAIN swept, listed |-> {},
                 before |-> swept, written |-> swept]}
          ELSE
          LET cacheData == [chunks |-> chunks, timestamp |-> t, promptHash |-> promptHash]
              text      == JSONStringify(cacheData)
              written   == IF fault = "write" THEN swept
                           ELSE IF fault = "truncate"
                           THEN writeFileSync(swept, filePath, Truncated(text), t)
                           ELSE writeFileSync(swept, filePath, text, t)
          IN {[fs |-> enforceFileLimits(written, TRUE, fault, toRemove),
               dir |-> TRUE, threw |-> FALSE, ret |-> cacheKey,
               wrote |-> IF fault = "write" THEN Null ELSE filePath,
               ndraws |-> n, swept |-> DOMAIN swept, listed |-> DOMAIN written,
               before |-> swept, written |-> written] :
              toRemove \in toRemoveChoices(written)}

getChunks_KeepExpired(f, t, cacheKey, fault) ==
    LET filePath == CachePath[cacheKey]
    IN IF filePath = Null
       THEN [fs |-> f, ret |-> Null, touched |-> {}]
       ELSE IF ~existsSync(f, filePath)
       THEN [fs |-> f, ret |-> Null, touched |-> {filePath}]
       ELSE IF fault = "read" \/ ~JSONParses(f[filePath].content)
       THEN [fs |-> IF fault = "unlink" THEN f ELSE unlinkSync(f, filePath),
             ret |-> Null, touched |-> {filePath}]
       ELSE LET data == JSONParse(f[filePath].content)
            IN IF t - data.timestamp > CACHE_TTL
               THEN [fs |-> f, ret |-> Null, touched |-> {filePath}]
               ELSE [fs |-> f, ret |-> data.chunks, touched |-> {filePath}]

getChunks_KeepsCorrupt(f, t, cacheKey, fault) ==
    LET filePath == CachePath[cacheKey]
    IN IF filePath = Null
       THEN [fs |-> f, ret |-> Null, touched |-> {}]
       ELSE IF ~existsSync(f, filePath)
       THEN [fs |-> f, ret |-> Null, touched |-> {filePath}]
       ELSE IF fault = "read" \/ ~JSONParses(f[filePath].content)
       THEN [fs |-> f, ret |-> Null, touched |-> {filePath}]
       ELSE LET data == JSONParse(f[filePath].content)
            IN IF t - data.timestamp > CACHE_TTL
               THEN [fs |-> IF fault = "unlink" THEN f ELSE unlinkSync(f, filePath),
                     ret |-> Null, touched |-> {filePath}]
               ELSE [fs |-> f, ret |-> data.chunks, touched |-> {filePath}]

getChunks_SweepsOnRead(f, t, cacheKey, fault) ==
    LET g        == cleanExpiredFiles(f, TRUE, t, fault).fs
        filePath == CachePath[cacheKey]
    IN IF filePath = Null
       THEN [fs |-> g, ret |-> Null, touched |-> {}]
       ELSE IF ~existsSync(g, filePath)
       THEN [fs |-> g, ret |-> Null, touched |-> {filePath}]
       ELSE IF fault = "read" \/ ~JSONParses(g[filePath].content)
       THEN [fs |-> IF fault = "unlink" THEN g ELSE unlinkSync(g, filePath),
             ret |-> Null, touched |-> {filePath}]
       ELSE LET data == JSONParse(g[filePath].content)
            IN IF t - data.timestamp > CACHE_TTL
               THEN [fs |-> IF fault = "unlink" THEN g ELSE unlinkSync(g, filePath),
                     ret |-> Null, touched |-> {filePath}]
               ELSE [fs |-> g, ret |-> data.chunks, touched |-> {filePath}]

\* export function getChunks(cacheKey): the files after it, what it returns
\* and the paths it handed to existsSync, readFileSync or unlinkSync.
getChunks(f, t, cacheKey, fault) ==
    LET filePath == CachePath[cacheKey]
    IN IF filePath = Null
       THEN [fs |-> f, ret |-> Null, touched |-> {}]
       ELSE IF ~existsSync(f, filePath)
       THEN [fs |-> f, ret |-> Null, touched |-> {filePath}]
       ELSE IF fault = "read" \/ ~JSONParses(f[filePath].content)
       THEN \* catch: unlinkSync in its own try
            [fs |-> IF fault = "unlink" THEN f ELSE unlinkSync(f, filePath),
             ret |-> Null, touched |-> {filePath}]
       ELSE LET data == JSONParse(f[filePath].content)
            IN IF t - data.timestamp > CACHE_TTL
               THEN [fs |-> IF fault = "unlink" THEN f ELSE unlinkSync(f, filePath),
                     ret |-> Null, touched |-> {filePath}]
               ELSE [fs |-> f, ret |-> data.chunks, touched |-> {filePath}]

\* export function getCacheStats(): ensureCacheDir is called outside the try.
getCacheStats(f, dir, fault) ==
    LET e == ensureCacheDir(dir, fault)
    IN IF e.threw THEN [dir |-> e.dir, threw |-> TRUE, size |-> 0]
       ELSE [dir |-> TRUE, threw |-> FALSE,
             size |-> IF fault = "readdir" THEN 0 ELSE Cardinality(JsonPaths(f))]

clearCache_KeepNewest(f, dir, fault) ==
    LET e == ensureCacheDir(dir, fault)
    IN IF e.threw \/ fault \in {"readdir", "unlink"} THEN [fs |-> f, dir |-> e.dir]
       ELSE [fs  |-> unlinkAll(f, {p \in JsonPaths(f) :
                                     \E q \in JsonPaths(f) : f[q].mtime > f[p].mtime}),
             dir |-> TRUE]

\* export function clearCache(): one try around everything, so the first
\* failing unlinkSync ends the loop.
clearCache(f, dir, fault) ==
    LET e == ensureCacheDir(dir, fault)
    IN IF e.threw \/ fault \in {"readdir", "unlink"} THEN [fs |-> f, dir |-> e.dir]
       ELSE [fs |-> unlinkAll(f, JsonPaths(f)), dir |-> TRUE]

\* ---------------------------------------------------------------- actions

\* The record of an operation:
\*   op, arg, prompt, chunks   the operation and its arguments
\*   at, fault                 the clock at the call, the failing call
\*   ret, size, threw          what it returned, or that it threw
\*   touched                   getChunks: the paths handed to the file system
\*   pre                       getChunks: the text of the key's file before
\*   ndraws, collisions, draw  cacheChunks: the keys the loop drew; of the
\*                             keys delivered, how many named an existing
\*                             file, and the last one
\*   wrote, cand               cacheChunks: the path written, and the files
\*                             enforceFileLimits found, in write order
\*   removed                   the number of cache files the operation removed
\*   fresh, kept               cacheChunks: whether the path written named no
\*                             file before the write step, and whether every
\*                             file of before the write step is unchanged by it
NoOp == [op |-> "none", arg |-> Null, prompt |-> "", chunks |-> <<>>, at |-> 0,
         fault |-> "none", ret |-> Null, size |-> 0, threw |-> FALSE,
         touched |-> {}, pre |-> <<>>, ndraws |-> 0, collisions |-> 0,
         draw |-> Null, wrote |-> Null, cand |-> <<>>, removed |-> 0,
         fresh |-> TRUE, kept |-> TRUE]

NoProc == [pc |-> "idle", prompt |-> "", chunks |-> <<>>, key |-> Null, i |-> 0,
           at |-> 0, wrote |-> FALSE]

\* A process of SpecRace before it starts:
\*   op, pc        the operation it runs and its position in it
\*   key           getChunks: its argument
\*   at            cleanExpiredFiles: the value of Date.now() it took
\*   todo          a pass: the files it listed and has still to handle
\*   file          cleanExpiredFiles: the expired file it is about to unlink
\*   text          getChunks: the text it read
\*   stats         enforceFileLimits: the files it has taken the mtime of
\*   ret, threw    what the operation returned, or that it threw
\*   missed        whether it threw, into a catch of its own, because a
\*                 file had been removed by another process
NoPass == [op |-> "none", pc |-> "idle", key |-> Null, at |-> 0,
           todo |-> {}, file |-> Null, text |-> <<>>, stats |-> EmptyFS,
           ret |-> Null, threw |-> FALSE, missed |-> FALSE]

Init ==
    /\ fs = EmptyFS
    /\ dirExists = FALSE
    /\ now = 0
    /\ order = <<>>
    /\ last = NoOp
    /\ procs = [p \in 1..NumProcs |-> NoProc]
    /\ gone = {}
    /\ race = [p \in 1..NumProcs |-> NoPass]

\* The existing files of a write order, with `wrote` (when a path) moved to
\* its end.
Reorder(ord, files, wrote) ==
    SelectSeq(ord, LAMBDA p : p \in files /\ p # wrote)
        \o (IF wrote # Null /\ wrote \in files THEN <<wrote>> ELSE <<>>)

\* Time passes between two operations.
Tick ==
    /\ now < MaxTime
    /\ now' = now + 1
    /\ UNCHANGED <<fs, dirExists, order, last, procs, gone, race>>

CacheChunksOp(calls, faults) ==
    \E call \in calls, fault \in faults \ {"read"} :
    \E draws \in DrawSeqs(cleanExpiredFiles(fs, TRUE, now, fault).fs) :
    \E r \in cacheChunks(fs, dirExists, now, call[1], call[2], draws, fault) :
        /\ fs' = r.fs
        /\ dirExists' = r.dir
        /\ order' = Reorder(order, DOMAIN r.fs, r.wrote)
        /\ last' = [NoOp EXCEPT !.op = "cacheChunks", !.prompt = call[1],
                                !.chunks = call[2], !.at = now, !.fault = fault,
                                !.ret = r.ret, !.threw = r.threw,
                                !.ndraws = r.ndraws,
                                !.collisions = Cardinality({j \in 1..Len(draws) :
                                                    KeyFile(draws[j]) \in r.swept}),
                                !.draw = draws[Len(draws)], !.wrote = r.wrote,
                                !.cand = Reorder(order, r.listed, r.wrote),
                                !.removed = Cardinality(DOMAIN fs \ DOMAIN r.fs),
                                !.fresh = r.wrote \notin DOMAIN r.before,
                                !.kept = \A p \in DOMAIN r.before :
                                            /\ p \in DOMAIN r.written
                                            /\ r.written[p] = r.before[p]]
        /\ UNCHANGED <<now, procs, race>>

GetChunksOp(keys, faults) ==
    \E cacheKey \in keys, fault \in faults \cap {"none", "read", "unlink"} :
    LET r == getChunks(fs, now, cacheKey, fault)
    IN  /\ fs' = r.fs
        /\ order' = Reorder(order, DOMAIN r.fs, Null)
        /\ last' = [NoOp EXCEPT !.op = "getChunks", !.arg = cacheKey, !.at = now,
                                !.fault = fault, !.ret = r.ret,
                                !.touched = r.touched,
                                !.pre = IF \E p \in r.touched : p \in DOMAIN fs
                                        THEN fs[CHOOSE p \in r.touched : p \in DOMAIN fs].content
                                        ELSE <<>>,
                                !.removed = Cardinality(DOMAIN fs \ DOMAIN r.fs)]
        /\ UNCHANGED <<dirExists, now, procs, race>>

GetCacheStatsOp(faults) ==
    \E fault \in faults \cap {"none", "mkdir", "readdir"} :
    LET r == getCacheStats(fs, dirExists, fault)
    IN  /\ dirExists' = r.dir
        /\ last' = [NoOp EXCEPT !.op = "getCacheStats", !.at = now, !.fault = fault,
                                !.size = r.size, !.threw = r.threw]
        /\ UNCHANGED <<fs, now, order, procs, race>>

ClearCacheOp(faults) ==
    \E fault \in faults \cap {"none", "mkdir", "readdir", "unlink"} :
    LET r == clearCache(fs, dirExists, fault)
    IN  /\ fs' = r.fs
        /\ dirExists' = r.dir
        /\ order' = Reorder(order, DOMAIN r.fs, Null)
        /\ last' = [NoOp EXCEPT !.op = "clearCache", !.at = now, !.fault = fault,
                                !.removed = Cardinality(DOMAIN fs \ DOMAIN r.fs)]
        /\ UNCHANGED <<now, procs, race>>

CacheChunks == CacheChunksOp(Calls, {"none"}) /\ UNCHANGED gone

GetChunks == GetChunksOp(ReadKeys, {"none"}) /\ UNCHANGED gone

GetCacheStats == GetCacheStatsOp({"none"}) /\ UNCHANGED gone

ClearCache == ClearCacheOp({"none"}) /\ UNCHANGED gone

Next == Tick \/ CacheChunks \/ GetChunks \/ GetCacheStats \/ ClearCache

\* One process, each public operation run to completion, no file-system
\* call failing.
Spec == Init /\ [][Next]_vars

CacheChunksFaulty == CacheChunksOp({<<"fix bug", <<"A", "B">>>>}, Faults) /\ UNCHANGED gone

GetChunksFaulty == GetChunksOp(RandomKeys, Faults) /\ UNCHANGED gone

GetCacheStatsFaulty == GetCacheStatsOp(Faults) /\ UNCHANGED gone

ClearCacheFaulty == ClearCacheOp(Faults) /\ UNCHANGED gone

NextFaulty ==
    CacheChunksFaulty \/ GetChunksFaulty \/ GetCacheStatsFaulty \/ ClearCacheFaulty

\* One process, each public operation run to completion, any one kind of
\* file-system call failing during an operation; the operations follow
\* each other within one clock tick.
SpecFaulty == Init /\ [][NextFaulty]_vars

\* The operations of one process with the removed paths recorded.
Removed == DOMAIN fs \ DOMAIN fs'

CacheChunksLife ==
    CacheChunksOp({<<"fix bug", <<"A", "B">>>>}, {"none"}) /\ gone' = gone \cup Removed

GetChunksLife == GetChunksOp(RandomKeys, {"none"}) /\ gone' = gone \cup Removed

ClearCacheLife == ClearCacheOp({"none"}) /\ gone' = gone \cup Removed

NextLife == Tick \/ CacheChunksLife \/ GetChunksLife \/ ClearCacheLife

\* One process, no file-system call failing, with the history of removals.
SpecLife == Init /\ [][NextLife]_vars

\* ------------------------------------------------------ several processes

\* Each process runs cacheChunks once, one file-system access at a time:
\*   idle     lines 46-54: ensureCacheDir, cleanExpiredFiles, the first key
\*   check    line 55: the loop condition with its existsSync, and on a
\*            collision the loop body (lines 56-57)
\*   write    lines 59-81: the fallback tests and writeFileSync
\*   enforce  lines 82-83: enforceFileLimits, return cacheKey
\*   done     cacheChunks has returned procs[p].key
Procs == 1..NumProcs

\* The call process p makes: the processes take turns through Calls.
CallOf(p) == IF p % 2 = 1 THEN <<"fix bug", <<"A", "B">>>> ELSE <<"add test", <<"B">>>>

MPBegin(p) ==
    /\ procs[p].pc = "idle"
    /\ \E k \in RandomKeys :
         /\ fs' = cleanExpiredFiles(fs, TRUE, now, "none").fs
         /\ dirExists' = TRUE
         /\ procs' = [procs EXCEPT ![p] = [NoProc EXCEPT !.pc = "check",
                           !.prompt = CallOf(p)[1], !.chunks = CallOf(p)[2],
                           !.key = k]]
    /\ UNCHANGED <<now, order, last, gone, race>>

MPCheck_Unbounded(p) ==
    /\ procs[p].pc = "check"
    /\ LET filePath == CachePath[procs[p].key]
       IN IF filePath # Null /\ existsSync(fs, filePath)
          THEN \E k \in RandomKeys :
                 procs' = [procs EXCEPT ![p].key = k, ![p].i = procs[p].i + 1]
          ELSE procs' = [procs EXCEPT ![p].pc = "write", ![p].i = 0]
    /\ UNCHANGED <<fs, dirExists, now, order, last, gone, race>>

MPCheck(p) ==
    /\ procs[p].pc = "check"
    /\ LET filePath == CachePath[procs[p].key]
       IN IF procs[p].i < MAX_RETRIES /\ filePath # Null /\ existsSync(fs, filePath)
          THEN \E k \in RandomKeys :
                 procs' = [procs EXCEPT ![p].key = k, ![p].i = procs[p].i + 1]
          ELSE procs' = [procs EXCEPT ![p].pc = "write", ![p].i = 0]
    /\ UNCHANGED <<fs, dirExists, now, order, last, gone, race>>

MPWrite(p) ==
    /\ procs[p].pc = "write"
    /\ LET promptHash == Sha256Hex(procs[p].prompt)
           drawnPath  == CachePath[procs[p].key]
           cacheKey   == IF drawnPath = Null THEN Slice8(promptHash) ELSE procs[p].key
           filePath   == IF drawnPath = Null THEN CachePath[cacheKey] ELSE drawnPath
           cacheData  == [chunks |-> procs[p].chunks, timestamp |-> now,
                          promptHash |-> promptHash]
       IN IF filePath = Null
          THEN /\ procs' = [procs EXCEPT ![p].pc = "done", ![p].key = Slice8(promptHash)]
               /\ fs' = fs
          ELSE /\ fs' = writeFileSync(fs, filePath, JSONStringify(cacheData), now)
               /\ procs' = [procs EXCEPT ![p].pc = "enforce", ![p].key = cacheKey,
                                         ![p].at = now, ![p].wrote = TRUE]
    /\ UNCHANGED <<dirExists, now, order, last, gone, race>>

MPEnforce(p) ==
    /\ procs[p].pc = "enforce"
    /\ \E toRemove \in toRemoveChoices(fs) :
         fs' = enforceFileLimits(fs, dirExists, "none", toRemove)
    /\ procs' = [procs EXCEPT ![p].pc = "done"]
    /\ UNCHANGED <<dirExists, now, order, last, gone, race>>

MPTick ==
    /\ now < MaxTime
    /\ now' = now + 1
    /\ UNCHANGED <<fs, dirExists, order, last, procs, gone, race>>

NextMP ==
    \/ MPTick
    \/ \E p \in Procs : MPBegin(p) \/ MPCheck(p) \/ MPWrite(p) \/ MPEnforce(p)

\* Several processes sharing the cache directory, their file-system
\* accesses interleaved.
SpecMP == Init /\ [][NextMP]_vars

NextMPFair ==
    \E p \in Procs : MPBegin(p) \/ MPCheck(p) \/ MPWrite(p) \/ MPEnforce(p)

\* The processes within one tick of the clock (no file expires, so the files
\* that make keys collide stay), with every process that has entered
\* cacheChunks running on: the calls are synchronous, so a process whose
\* next statement can be executed executes it.
SpecMPFair ==
    /\ Init
    /\ [][NextMPFair]_vars
    /\ \A p \in Procs : WF_vars(MPCheck(p) \/ MPWrite(p) \/ MPEnforce(p))

\* ------------------------------------------- readers and deleting passes

\* The entry a cacheChunks call made at time t stores.
EntryAt(call, t) ==
    [content |-> JSONStringify([chunks |-> call[2], timestamp |-> t,
                                promptHash |-> Sha256Hex(call[1])]),
     mtime   |-> t]

\* The files the processes of SpecRace find: two entries written at time 0
\* and one written at time 1, the last before its writer has run
\* enforceFileLimits.  The processes run within one tick of the clock, at
\* any time from 1 on.
RaceFS ==
    [path \in {KeyFile(k) : k \in RandomKeys} |->
        IF path = KeyFile(BytesToHex(<<0, 0, 0, 10>>))
        THEN EntryAt(<<"fix bug", <<"A", "B">>>>, 0)
        ELSE IF path = KeyFile(BytesToHex(<<0, 0, 0, 177>>))
        THEN EntryAt(<<"add test", <<"B">>>>, 0)
        ELSE EntryAt(<<"fix bug", <<"A", "B">>>>, 1)]

InitRace ==
    /\ fs = RaceFS
    /\ dirExists = TRUE
    /\ now \in 1..MaxTime
    /\ order = <<>>
    /\ last = NoOp
    /\ procs = [p \in 1..NumProcs |-> NoProc]
    /\ gone = {}
    /\ race = [p \in 1..NumProcs |-> NoPass]

\* getChunks, lines 92-101: resolveCachePath and the existsSync test.
GetExists(p) ==
    /\ race[p].pc = "idle"
    /\ \E k \in RandomKeys :
         race' = [race EXCEPT ![p] =
                    IF CachePath[k] # Null /\ existsSync(fs, CachePath[k])
                    THEN [NoPass EXCEPT !.op = "getChunks", !.pc = "read", !.key = k]
                    ELSE [NoPass EXCEPT !.op = "getChunks", !.pc = "done", !.key = k]]
    /\ UNCHANGED <<fs, dirExists, now, order, last, procs, gone>>

GetRead_Uncaught(p) ==
    /\ race[p].pc = "read"
    /\ LET filePath == CachePath[race[p].key]
       IN IF ~existsSync(fs, filePath)
          THEN race' = [race EXCEPT ![p].pc = "done", ![p].threw = TRUE,
                                    ![p].missed = TRUE]
          ELSE IF ~JSONParses(fs[filePath].content)
          THEN race' = [race EXCEPT ![p].pc = "cleanup", ![p].text = fs[filePath].content]
          ELSE race' = [race EXCEPT ![p].pc = "expiry", ![p].text = fs[filePath].content]
    /\ UNCHANGED <<fs, dirExists, now, order, last, procs, gone>>

\* getChunks, lines 103-104: readFileSync, which throws when the file has
\* been removed since the existsSync test, and JSON.parse; both land in the
\* catch of line 114.
GetRead(p) ==
    /\ race[p].pc = "read"
    /\ LET filePath == CachePath[race[p].key]
       IN IF ~existsSync(fs, filePath)
          THEN race' = [race EXCEPT ![p].pc = "cleanup", ![p].missed = TRUE]
          ELSE IF ~JSONParses(fs[filePath].content)
          THEN race' = [race EXCEPT ![p].pc = "cleanup", ![p].text = fs[filePath].content]
          ELSE race' = [race EXCEPT ![p].pc = "expiry", ![p].text = fs[filePath].content]
    /\ UNCHANGED <<fs, dirExists, now, order, last, procs, gone>>

\* getChunks, lines 106-113: the expiry test with its unlinkSync (which
\* throws when the file has been removed, landing in the catch), or the
\* return of the chunks.
GetExpiry(p) ==
    /\ race[p].pc = "expiry"
    /\ LET filePath == CachePath[race[p].key]
           data     == JSONParse(race[p].text)
       IN IF now - data.timestamp > CACHE_TTL
          THEN IF existsSync(fs, filePath)
               THEN /\ fs' = unlinkSync(fs, filePath)
                    /\ race' = [race EXCEPT ![p].pc = "done", ![p].ret = Null,
                                            ![p].text = <<>>]
               ELSE /\ fs' = fs
                    /\ race' = [race EXCEPT ![p].pc = "cleanup", ![p].missed = TRUE]
          ELSE /\ fs' = fs
               /\ race' = [race EXCEPT ![p].pc = "done", ![p].ret = data.chunks,
                                       ![p].text = <<>>]
    /\ UNCHANGED <<dirExists, now, order, last, procs, gone>>

\* getChunks, lines 114-120: the catch, with unlinkSync in its own try.
GetCleanup(p) ==
    /\ race[p].pc = "cleanup"
    /\ fs' = unlinkSync(fs, CachePath[race[p].key])
    /\ race' = [race EXCEPT ![p].pc = "done", ![p].ret = Null, ![p].text = <<>>]
    /\ UNCHANGED <<dirExists, now, order, last, procs, gone>>

\* clearCache, lines 203-204: ensureCacheDir and readdirSync.
ClearList(p) ==
    /\ race[p].pc = "idle"
    /\ race' = [race EXCEPT ![p] =
                  [NoPass EXCEPT !.op = "clearCache",
                                 !.pc = IF JsonPaths(fs) = {} THEN "done" ELSE "clear",
                                 !.todo = JsonPaths(fs)]]
    /\ dirExists' = TRUE
    /\ UNCHANGED <<fs, now, order, last, procs, gone>>

\* clearCache, lines 206-210: one unlinkSync of the loop.  It is not in a
\* try of its own: when the file has been removed it throws into the catch
\* of line 213, which ends the pass.
ClearUnlink(p) ==
    /\ race[p].pc = "clear"
    /\ \E path \in race[p].todo :
         IF existsSync(fs, path)
         THEN /\ fs' = unlinkSync(fs, path)
              /\ race' = [race EXCEPT ![p].todo = race[p].todo \ {path},
                                      ![p].pc = IF race[p].todo = {path}
                                                THEN "done" ELSE "clear"]
         ELSE /\ fs' = fs
              /\ race' = [race EXCEPT ![p].pc = "done", ![p].missed = TRUE]
    /\ UNCHANGED <<dirExists, now, order, last, procs, gone>>

\* cleanExpiredFiles, lines 125-128: ensureCacheDir, readdirSync, Date.now().
SweepList(p) ==
    /\ race[p].pc = "idle"
    /\ race' = [race EXCEPT ![p] =
                  [NoPass EXCEPT !.op = "cleanExpiredFiles",
                                 !.pc = IF JsonPaths(fs) = {} THEN "done" ELSE "stat",
                                 !.at = now,
                                 !.todo = JsonPaths(fs)]]
    /\ dirExists' = TRUE
    /\ UNCHANGED <<fs, now, order, last, procs, gone>>

\* cleanExpiredFiles, lines 133-136: statSync of the next file and the age
\* test; a statSync that throws is caught for that file (lines 141-144).
SweepStat(p) ==
    /\ race[p].pc = "stat"
    /\ \E path \in race[p].todo :
         LET rest == race[p].todo \ {path}
         IN IF ~existsSync(fs, path)
            THEN race' = [race EXCEPT ![p].todo = rest,
                                      ![p].pc = IF rest = {} THEN "done" ELSE "stat"]
            ELSE IF race[p].at - fs[path].mtime > CACHE_TTL
            THEN race' = [race EXCEPT ![p].file = path, ![p].pc = "unlink"]
            ELSE race' = [race EXCEPT ![p].todo = rest,
                                      ![p].pc = IF rest = {} THEN "done" ELSE "stat"]
    /\ UNCHANGED <<fs, dirExists, now, order, last, procs, gone>>

\* cleanExpiredFiles, line 137: unlinkSync of the expired file; when it
\* throws it is caught for that file.
SweepUnlink(p) ==
    /\ race[p].pc = "unlink"
    /\ LET rest == race[p].todo \ {race[p].file}
       IN /\ fs' = unlinkSync(fs, race[p].file)
          /\ race' = [race EXCEPT ![p].todo = rest, ![p].file = Null,
                                  ![p].pc = IF rest = {} THEN "done" ELSE "stat"]
    /\ UNCHANGED <<dirExists, now, order, last, procs, gone>>

\* enforceFileLimits, lines 160-161: readdirSync and the filter.
EnforceList(p) ==
    /\ race[p].pc = "idle"
    /\ race' = [race EXCEPT ![p] =
                  [NoPass EXCEPT !.op = "enforceFileLimits",
                                 !.pc = IF JsonPaths(fs) = {} THEN "done" ELSE "map",
                                 !.todo = JsonPaths(fs)]]
    /\ UNCHANGED <<fs, dirExists, now, order, last, procs, gone>>

\* enforceFileLimits, lines 162-171: statSync of the next file in the map;
\* it is not in a try of its own, so when the file has been removed it
\* throws into the catch of line 179, which ends the pass.  After the last
\* file: the sort and the slice, which leave the files to remove.
EnforceStat(p) ==
    /\ race[p].pc = "map"
    /\ \E path \in race[p].todo :
         IF ~existsSync(fs, path)
         THEN race' = [race EXCEPT ![p].pc = "done", ![p].missed = TRUE]
         ELSE LET stats == [q \in DOMAIN race[p].stats \cup {path} |->
                              IF q = path THEN fs[path] ELSE race[p].stats[q]]
              IN IF race[p].todo # {path}
                 THEN race' = [race EXCEPT ![p].todo = race[p].todo \ {path},
                                           ![p].stats = stats]
                 ELSE \E toRemove \in toRemoveChoices(stats) :
                        race' = [race EXCEPT ![p].todo = toRemove,
                                             ![p].stats = EmptyFS,
                                             ![p].pc = IF toRemove = {}
                                                       THEN "done" ELSE "remove"]
    /\ UNCHANGED <<fs, dirExists, now, order, last, procs, gone>>

\* enforceFileLimits, lines 172-176: one unlinkSync of the loop, in its own
\* try.
EnforceUnlink(p) ==
    /\ race[p].pc = "remove"
    /\ \E path \in race[p].todo :
         /\ fs' = unlinkSync(fs, path)
         /\ race' = [race EXCEPT ![p].todo = race[p].todo \ {path},
                                 ![p].pc = IF race[p].todo = {path}
                                           THEN "done" ELSE "remove"]
    /\ UNCHANGED <<dirExists, now, order, last, procs, gone>>

NextRace ==
    \E p \in Procs :
         \/ GetExists(p) \/ GetRead(p) \/ GetExpiry(p) \/ GetCleanup(p)
         \/ ClearList(p) \/ ClearUnlink(p)
         \/ SweepList(p) \/ SweepStat(p) \/ SweepUnlink(p)
         \/ EnforceList(p) \/ EnforceStat(p) \/ EnforceUnlink(p)

\* Several processes on the shared cache directory, each running one
\* getChunks, clearCache, cleanExpiredFiles or enforceFileLimits, their
\* file-system accesses interleaved.
SpecRace == InitRace /\ [][NextRace]_vars

\* ----------------------------------------------------------------- claims

\* ^[a-f0-9]{8}$
IsLowerHex8(key) ==
    /\ Len(key) = 8
    /\ \A i \in 1..8 : key[i] \in {"0","1","2","3","4","5","6","7","8","9",
                                   "a","b","c","d","e","f"}

\* ^[a-fA-F0-9]{8}$
IsHex8(key) ==
    /\ Len(key) = 8
    /\ \A i \in 1..8 : key[i] \in {"0","1","2","3","4","5","6","7","8","9",
                                   "a","b","c","d","e","f","A","B","C","D","E","F"}

\* C1 (round trip): after cacheChunks(prompt, chunks) has returned a key,
\* getChunks of that key, called while no more than CACHE_TTL has passed
\* since the call, returns chunks.  The code does not keep this: see
\* C5_SurvivorsAreNewest.
C1_RoundTrip ==
    (last.op = "cacheChunks" /\ ~last.threw /\ now - last.at <= CACHE_TTL)
        => getChunks(fs, now, last.ret, "none").ret = last.chunks

\* The last min(n, Len(s)) elements of a sequence, as a set.
LastN(s, n) == {s[i] : i \in {j \in 1..Len(s) : j > Len(s) - n}}

\* C5 (eviction): after a cacheChunks call that wrote its entry at most
\* MAX_CACHE_FILES entries remain, and they are the most recently written
\* ones.  The code orders by mtime, which does not tell apart entries written
\* within one tick of the clock.
C5_SurvivorsAreNewest ==
    (last.op = "cacheChunks" /\ last.wrote # Null)
        => /\ Cardinality(JsonPaths(fs)) <= MAX_CACHE_FILES
           /\ JsonPaths(fs) = LastN(last.cand, MAX_CACHE_FILES)

\* C2 as claimed (rejection): getChunks of a key that is not eight lowercase
\* hex digits returns null and hands no path to the file system.
C2_RejectsAllButLowerHex ==
    (last.op = "getChunks" /\ ~IsLowerHex8(last.arg))
        => (last.ret = Null /\ last.touched = {})

\* C2 (rejection), amended: getChunks of a key that is not eight hex digits
\* of either case returns null, hands no path to the file system and
\* removes no file.
C2_RejectsAllButHex ==
    (last.op = "getChunks" /\ ~IsHex8(last.arg))
        => (last.ret = Null /\ last.touched = {} /\ last.removed = 0)

C2_Witness ==
    /\ last.op = "getChunks"
    /\ ~IsHex8(last.arg)
    /\ Len(last.arg) = 9
    /\ last.ret = Null
    /\ fs # EmptyFS

\* Whether a path lies strictly inside the cache directory: it is in normal
\* form and is the directory, a separator, and more.
StrictlyInside(path) ==
    /\ PathResolve(path, <<>>) = path
    /\ Len(path) > Len(CACHE_DIR) + 1
    /\ SubSeq(path, 1, Len(CACHE_DIR) + 1) = CACHE_DIR \o <<SEP>>

\* C3 (traversal safety): every path getChunks hands to the file system is
\* CACHE_DIR joined with "<key>.json" and lies strictly inside CACHE_DIR, and
\* a key whose file would resolve outside CACHE_DIR is rejected with no path
\* handed to the file system.
C3_TraversalSafe ==
    last.op = "getChunks"
        => /\ \A path \in last.touched :
                path = KeyFile(last.arg) /\ StrictlyInside(path)
           /\ ~StrictlyInside(PathResolve(CACHE_DIR, last.arg \o DOT_JSON))
                => (last.touched = {} /\ last.ret = Null)

C3_Witness ==
    /\ last.op = "getChunks"
    /\ ~StrictlyInside(PathResolve(CACHE_DIR, last.arg \o DOT_JSON))
    /\ last.touched = {}
    /\ last.ret = Null
    /\ fs # EmptyFS

\* C4 (expiry on read): when the entry stored under a key is older than
\* CACHE_TTL by its embedded timestamp, getChunks of the key returns null and
\* the key's file is gone afterwards.
C4_ExpiredOnRead ==
    (/\ last.op = "getChunks"
     /\ JSONParses(last.pre)
     /\ last.at - JSONParse(last.pre).timestamp > CACHE_TTL)
        => (last.ret = Null /\ KeyFile(last.arg) \notin DOMAIN fs)

C4_Witness ==
    /\ last.op = "getChunks"
    /\ JSONParses(last.pre)
    /\ last.at - JSONParse(last.pre).timestamp > CACHE_TTL
    /\ last.ret = Null
    /\ last.removed = 1

\* C6 (non-fatal failures): no public operation throws, whatever file-system
\* call fails, and cacheChunks still returns its key.  The code calls
\* ensureCacheDir outside any try in cacheChunks and in getCacheStats.
C6_NothingPropagates ==
    /\ ~last.threw
    /\ last.op = "cacheChunks" => last.ret # Null

\* C7 as claimed (collision fallback): when the first key and every retry
\* name an existing file, cacheChunks returns the first eight hex digits of
\* the prompt's sha-256 digest, and throws nothing.
C7_FallsBackToDigest ==
    (last.op = "cacheChunks" /\ last.collisions = MAX_RETRIES + 1)
        => (~last.threw /\ last.ret = Slice8(Sha256Hex(last.prompt)))

\* C7 (collision fallback), amended: when the first key and every retry name
\* an existing file, cacheChunks throws nothing, returns the last key drawn
\* and writes its entry over the file of that key.
C7_KeepsLastDraw ==
    (last.op = "cacheChunks" /\ last.collisions = MAX_RETRIES + 1)
        => /\ ~last.threw
           /\ last.ret = last.draw
           /\ last.wrote = KeyFile(last.draw)
           /\ last.ndraws = MAX_RETRIES + 1

C7_Witness ==
    /\ last.op = "cacheChunks"
    /\ last.collisions = MAX_RETRIES + 1
    /\ last.ret = last.draw
    /\ last.ret # Slice8(Sha256Hex(last.prompt))
    /\ KeyFile(last.draw) \in DOMAIN fs

\* C8 (clear): after clearCache the cache holds no entry: getCacheStats
\* reports size 0 and getChunks of every key cacheChunks can have returned
\* returns null.
C8_ClearEmpties ==
    last.op = "clearCache"
        => /\ getCacheStats(fs, dirExists, "none").size = 0
           /\ \A k \in RandomKeys : getChunks(fs, now, k, "none").ret = Null

C8_Witness ==
    /\ last.op = "clearCache"
    /\ last.removed = MAX_CACHE_FILES
    /\ getCacheStats(fs, dirExists, "none").size = 0

\* The directory and the name of a path.  The index of the last "/" of a path, searched from position i down.
RECURSIVE LastSepFrom(_, _)
LastSepFrom(path, i) ==
    IF i = 0 \/ path[i] = SEP THEN i ELSE LastSepFrom(path, i - 1)

LastSep(path) == LastSepFrom(path, Len(path))

Dirname(path) == SubSeq(path, 1, LastSep(path) - 1)

Basename(path) == SubSeq(path, LastSep(path) + 1, Len(path))

\* C9 (file names): every file that exists is named <eight lowercase hex
\* digits>.json and lies directly in CACHE_DIR, and every key cacheChunks
\* returns is eight lowercase hex digits.
C9_FileNames ==
    /\ \A path \in DOMAIN fs :
         /\ Dirname(path) = CACHE_DIR
         /\ EndsWith(Basename(path), DOT_JSON)
         /\ IsLowerHex8(SubSeq(Basename(path), 1, Len(Basename(path)) - Len(DOT_JSON)))
    /\ (last.op = "cacheChunks" /\ ~last.threw) => IsLowerHex8(last.ret)

C9_Witness ==
    /\ last.op = "cacheChunks"
    /\ IsLowerHex8(last.ret)
    /\ Cardinality(DOMAIN fs) = MAX_CACHE_FILES
    /\ KeyFile(last.ret) \in DOMAIN fs

\* The entry a process stores: what its writeFileSync wrote.
EntryOf(p) ==
    JSONStringify([chunks |-> procs[p].chunks, timestamp |-> procs[p].at,
                   promptHash |-> Sha256Hex(procs[p].prompt)])

\* C10 as claimed (concurrent writers): the processes that have written
\* chose different keys, and the key cacheChunks returned to a process
\* retrieves that process's chunks while its file exists and is not expired.
C10_WritersPickUniqueNames ==
    /\ \A p, q \in Procs :
         (p # q /\ procs[p].wrote /\ procs[q].wrote) => procs[p].key # procs[q].key
    /\ \A p \in Procs :
         (/\ procs[p].pc = "done"
          /\ procs[p].wrote
          /\ existsSync(fs, CachePath[procs[p].key])
          /\ now - procs[p].at <= CACHE_TTL)
            => getChunks(fs, now, procs[p].key, "none").ret = procs[p].chunks

\* C10 (concurrent writers), amended: a writer's entry is replaced only by a
\* writer that chose the same key.  While no other process has written under
\* the key of process p, the file of that key, as long as it exists, holds
\* the entry p wrote, and getChunks of the key returns p's chunks until the
\* entry expires.
C10_DistinctKeysKeepEntries ==
    \A p \in Procs :
        (/\ procs[p].wrote
         /\ existsSync(fs, CachePath[procs[p].key])
         /\ \A q \in Procs \ {p} : procs[q].wrote => procs[q].key # procs[p].key)
          => /\ fs[CachePath[procs[p].key]].content = EntryOf(p)
             /\ now - procs[p].at <= CACHE_TTL
                  => getChunks(fs, now, procs[p].key, "none").ret = procs[p].chunks

C10_Witness ==
    \E p, q \in Procs :
        /\ procs[p].pc = "done" /\ procs[q].pc = "done"
        /\ procs[p].wrote /\ procs[q].wrote
        /\ procs[p].key # procs[q].key
        /\ procs[p].chunks # procs[q].chunks
        /\ fs[KeyFile(procs[p].key)].content = EntryOf(p)
        /\ fs[KeyFile(procs[q].key)].content = EntryOf(q)

\* C13 as claimed (no overwrite): cacheChunks never writes over a file that
\* exists, and the files stored before are unchanged by its write step.
C13_NeverOverwrites ==
    (last.op = "cacheChunks" /\ last.wrote # Null) => (last.fresh /\ last.kept)

\* C13 (no overwrite), amended: whenever the first draw or one of the
\* MAX_RETRIES re-draws names no existing file, the key returned is the first
\* such draw, its file did not exist and the files stored before are
\* unchanged by the write step; a file that exists is written over only when
\* all MAX_RETRIES + 1 draws name existing files, and then only the file of
\* the last draw changes.
C13_OverwritesOnlyWhenExhausted ==
    (last.op = "cacheChunks" /\ ~last.threw)
        => /\ last.collisions <= MAX_RETRIES
                => /\ last.ndraws = last.collisions + 1
                   /\ last.ret = last.draw
                   /\ last.wrote = KeyFile(last.draw)
                   /\ last.fresh
                   /\ last.kept
           /\ ~(last.fresh /\ last.kept)
                => /\ last.collisions = MAX_RETRIES + 1
                   /\ last.wrote = KeyFile(last.draw)
                   /\ ~last.fresh

C13_Witness ==
    /\ last.op = "cacheChunks"
    /\ last.collisions = 2
    /\ last.ndraws = 3
    /\ last.ret = last.draw
    /\ last.fresh
    /\ last.kept
    /\ Cardinality(DOMAIN fs) = MAX_CACHE_FILES

\* Whether the text of a file is an entry older than CACHE_TTL at time t, by
\* its embedded timestamp.
ExpiredAt(text, t) == JSONParses(text) /\ t - JSONParse(text).timestamp > CACHE_TTL

\* C14 (read-only operations): a getChunks step creates no file, leaves every
\* file other than the file of its key as it was (existence, content and
\* mtime), and removes the file of its key only when its entry is expired or
\* does not parse, leaving it as it was otherwise; a getCacheStats step
\* leaves the files as they were.
C14_ReadsRemoveOnlyTheirEntry ==
    [][/\ last'.op = "getChunks"
            => /\ DOMAIN fs' \subseteq DOMAIN fs
               /\ \A p \in DOMAIN fs :
                    IF p # KeyFile(last'.arg) \/ p \in DOMAIN fs'
                    THEN p \in DOMAIN fs' /\ fs'[p] = fs[p]
                    ELSE ExpiredAt(fs[p].content, now) \/ ~JSONParses(fs[p].content)
       /\ last'.op = "getCacheStats" => fs' = fs]_vars

C14_Witness ==
    /\ last.op = "getChunks"
    /\ last.removed = 1
    /\ last.ret = Null
    /\ ExpiredAt(last.pre, last.at)
    /\ \E p \in DOMAIN fs : p # KeyFile(last.arg) /\ ExpiredAt(fs[p].content, now)

\* C15 (sweep on write): a cacheChunks step leaves no file whose mtime is
\* older than CACHE_TTL; every file that was that old before the step is
\* gone or written anew by it; and the sweep comes before the key is chosen:
\* a key whose file was that old is taken as a free key.
C15_SweepOnWrite ==
    [][(last'.op = "cacheChunks" /\ ~last'.threw /\ now' = now)
          => /\ \A p \in JsonPaths(fs') : now - fs'[p].mtime <= CACHE_TTL
             /\ \A p \in JsonPaths(fs) :
                  now - fs[p].mtime > CACHE_TTL
                      => /\ p \in DOMAIN fs' => (p = last'.wrote /\ fs'[p].mtime = now)
                         /\ p = last'.wrote
                              => (last'.fresh /\ last'.ndraws = last'.collisions + 1)]_vars

C15_Witness ==
    /\ last.op = "cacheChunks"
    /\ ~last.threw
    /\ last.at = now
    /\ last.removed >= 1
    /\ Len(last.cand) <= MAX_CACHE_FILES
    /\ \A p \in JsonPaths(fs) : now - fs[p].mtime <= CACHE_TTL

\* C17 (FIFO, not LRU): a getChunks step that returns chunks leaves the
\* files, their mtimes and the write order as they were, and the files a
\* cacheChunks step leaves are the last MAX_CACHE_FILES of the write order
\* (the earliest written are the ones removed).  The code does not keep the
\* second part: see C5_SurvivorsAreNewest.
C17_FifoWhateverWasRead ==
    [][/\ (last'.op = "getChunks" /\ last'.ret # Null)
            => (fs' = fs /\ order' = order)
       /\ (last'.op = "cacheChunks" /\ now' = now /\ last'.wrote # Null)
            => \A i \in 1..Len(last'.cand) :
                  (last'.cand[i] \in DOMAIN fs') <=> (i > Len(last'.cand) - MAX_CACHE_FILES)]_vars

C18_CorruptIsRemoved ==
    [][(/\ last'.op = "getChunks"
        /\ KeyFile(last'.arg) \in DOMAIN fs
        /\ ~JSONParses(fs[KeyFile(last'.arg)].content))
          => /\ last'.ret = Null
             /\ ~last'.threw
             /\ \A p \in DOMAIN fs \ {KeyFile(last'.arg)} :
                  p \in DOMAIN fs' /\ fs'[p] = fs[p]
             /\ DOMAIN fs' \subseteq DOMAIN fs
             /\ last'.fault # "unlink" => KeyFile(last'.arg) \notin DOMAIN fs']_vars

C18_Witness ==
    /\ last.op = "getChunks"
    /\ last.fault = "none"
    /\ last.pre # <<>>
    /\ ~JSONParses(last.pre)
    /\ last.ret = Null
    /\ last.removed = 1
    /\ KeyFile(last.arg) \notin DOMAIN fs
    /\ \E p \in DOMAIN fs : JSONParses(fs[p].content)

\* C20 (termination): the key loop of a cacheChunks call makes at most
\* MAX_RETRIES re-draws after the first draw, a call that has returned has
\* returned a key of eight lowercase hex digits, and every call returns:
\* from some point on no process is inside cacheChunks, whatever the
\* interleaving and even when every key a call draws names an existing file.
C20_Terminates ==
    /\ [](\A p \in Procs :
            /\ procs[p].i <= MAX_RETRIES
            /\ procs[p].pc = "done" => IsLowerHex8(procs[p].key))
    /\ <>[](\A p \in Procs : procs[p].pc \in {"idle", "done"})

C20_Witness ==
    \E p \in Procs :
        /\ procs[p].pc = "check"
        /\ procs[p].i = MAX_RETRIES
        /\ existsSync(fs, CachePath[procs[p].key])

\* C16 as claimed (one-way lifecycle): once the file of a key has been
\* removed, no entry is present under that key again.
C16_RemovedKeysStayAbsent == \A p \in gone : p \notin DOMAIN fs

\* C16 (one-way lifecycle), amended: an entry does not come back and does
\* not change.  The file of a key appears, or changes, only in a cacheChunks
\* step that returns that key, and it then holds that call's chunks with the
\* timestamp and the mtime of the call (a new, unexpired entry); no other
\* step creates or changes a file.  A removed key can be drawn again.
C16_OnlyAWriteMakesPresent ==
    [][\A k \in RandomKeys :
          (\/ KeyFile(k) \notin DOMAIN fs /\ KeyFile(k) \in DOMAIN fs'
           \/ /\ KeyFile(k) \in DOMAIN fs /\ KeyFile(k) \in DOMAIN fs'
              /\ fs'[KeyFile(k)] # fs[KeyFile(k)])
            => /\ last'.op = "cacheChunks"
               /\ last'.ret = k
               /\ last'.at = now
               /\ fs'[KeyFile(k)] =
                     [content |-> JSONStringify([chunks     |-> last'.chunks,
                                                 timestamp  |-> now,
                                                 promptHash |-> Sha256Hex(last'.prompt)]),
                      mtime   |-> now]
               /\ ~ExpiredAt(fs'[KeyFile(k)].content, now)]_vars

C16_Witness ==
    /\ last.op = "cacheChunks"
    /\ last.wrote \in gone
    /\ last.wrote \in DOMAIN fs
    /\ last.at = now
    /\ now > 0
    /\ JSONParse(fs[last.wrote].content).timestamp = now

\* C11 (read racing delete): a getChunks that has returned, whatever the
\* other processes removed meanwhile, has thrown nothing and has returned
\* null or the whole chunk sequence stored under its key.
C11_ReadRacingDelete ==
    \A p \in Procs :
        (race[p].op = "getChunks" /\ race[p].pc = "done")
            => /\ ~race[p].threw
               /\ \/ race[p].ret = Null
                  \/ race[p].ret = JSONParse(RaceFS[KeyFile(race[p].key)].content).chunks

C11_Witness ==
    \E p, q \in Procs :
        /\ race[p].op = "getChunks" /\ race[p].pc = "done"
        /\ race[p].missed
        /\ race[p].ret = Null
        /\ race[q].op = "clearCache"
        /\ race[q].pc = "done"
        /\ race[q].todo = {}
        /\ DOMAIN fs = {}

\* C12 (concurrent deletion passes): a pass that has ended has thrown
\* nothing and has handled every file it listed, also when another process
\* had removed one of them (so that clearCache leaves none of the files it
\* listed).  The code ends clearCache at the first file it finds removed
\* (lines 206-213), and enforceFileLimits likewise (lines 162-166, 179).
C12_PassesGoOn ==
    \A p \in Procs :
        (race[p].pc = "done" /\ race[p].op # "getChunks")
            => /\ ~race[p].threw
               /\ race[p].todo = {}

====
